---------------------------- MODULE Spec2Model ----------------------------
(***************************************************************************)
(* A model of MyBus.py: the transit arrival monitor with the pygame        *)
(* window.  The module holds                                               *)
(*   - JSON values and the Python dict/str operations the code applies to  *)
(*     them (dict.get, truthiness, str.replace, string comparison);        *)
(*   - the pure functions: calculate_time_to_arrival, format_arrival_time, *)
(*     extract_route_info, get_route_type_name, get_bus_arrivals and the   *)
(*     window's countdown classification;                                  *)
(*   - the monitoring loop of run_monitoring() inside main().              *)
(*                                                                         *)
(* Python values.  Every JSON value is a record tagged by t: "null",       *)
(* "num", "str", "obj", "arr"; a key a dict does not hold is the           *)
(* pseudo-value Absent.  An exception that leaves a function is the value  *)
(* Raise(e).                                                               *)
(*                                                                         *)
(* Timestamp strings.  A timestamp is the text                             *)
(*        2024-01-01T10:MM:00<zone>                                        *)
(* of which the model keeps the part that varies, the characters of MM     *)
(* and of <zone>, as a sequence of one-character strings (Ts).  The        *)
(* prefix "2024-01-01T10:" and the seconds ":00" are the same in every     *)
(* timestamp, so the order of two texts is the lexicographic order of the  *)
(* kept parts.  Instants are seconds since 2024-01-01T10:00:00Z.           *)
(***************************************************************************)
EXTENDS Integers, Sequences, FiniteSets, TLC

VARIABLES
    pc,           \* position of the running call / of main()
    config,       \* what ProviderConfig.json holds at this tick
    response,     \* what the transport does with this tick's request
    now,          \* datetime.now(timezone.utc) at this tick, in seconds
    result,       \* what get_bus_arrivals returned (or raised) this tick
    arrivals,     \* run_monitoring's local `arrivals` / draw_arrivals' input
    requests,     \* HTTP requests made in the current tick
    bus_display,  \* the global display instance
    events,       \* the events pygame.event.get() drained at the last render
    ret,          \* what display_arrivals last returned
    frames,       \* frames presented (pygame.display.flip) so far
    drawn,        \* rows drawn by the last draw_arrivals
    cleanups,     \* calls of BusArrivalDisplay.cleanup so far
    pending,      \* the exception in flight, "none" if there is none
    tick,         \* iterations of the while loop started so far
    interrupted,  \* a KeyboardInterrupt was raised in the loop
    ts,           \* calculate_time_to_arrival's argument
    minutes       \* calculate_time_to_arrival's return value

vars == <<pc, config, response, now, result, arrivals, requests, bus_display,
          events, ret, frames, drawn, cleanups, pending, tick, interrupted,
          ts, minutes>>

---------------------------------------------------------------------------
(* Bounds of the model. *)

MaxMinute == 4      \* timestamps carry minutes 00..MaxMinute
MaxNow == 200       \* the clock ranges over 0..MaxNow seconds
MaxPred == 2        \* predictions in one payload
MaxTicks == 2       \* loop iterations explored
MaxEvents == 2      \* events drained by one render call
MaxShown == 7       \* largest minutes_to_arrival drawn
MaxRows == 2        \* records handed to one draw_arrivals call

---------------------------------------------------------------------------
(* Python values *)

Absent == [t |-> "absent"]
Null == [t |-> "null"]
Num(n) == [t |-> "num", n |-> n]
Str(text) == [t |-> "str", text |-> text]
Obj(f) == [t |-> "obj", f |-> f]
Arr(a) == [t |-> "arr", a |-> a]
Raise(e) == [t |-> "raise", e |-> e]

IsRaise(v) == v.t = "raise"

\* A Python str is modelled in two ways.  Str(text) is a string of which the
\* code only asks whether it is empty or equal to another (ids, names).
\* Ts(chars) is a string the code looks into (a timestamp): a sequence of
\* characters.
Ts(chars) == [t |-> "str", s |-> chars]

\* Python truthiness of a value a dict.get can return.
Truthy(v) ==
    CASE v.t = "absent" -> FALSE
      [] v.t = "null" -> FALSE
      [] v.t = "num" -> v.n # 0
      [] v.t = "str" -> IF "s" \in DOMAIN v THEN v.s # <<>> ELSE v.text # ""
      [] v.t = "arr" -> v.a # <<>>
      [] v.t = "obj" -> \E k \in DOMAIN v.f : v.f[k] # Absent
      [] OTHER -> TRUE

\* d.get(key, default) on a dict d; on anything else Python raises
\* AttributeError, which the callers test with IsDict first.
IsDict(v) == v.t = "obj"

DictGet(d, key, default) ==
    IF key \in DOMAIN d.f /\ d.f[key] # Absent THEN d.f[key] ELSE default

\* d.get(key): the default is None.
DictGetNone(d, key) == DictGet(d, key, Null)

\* The empty dict {} used as a default.
EmptyDict == Obj([none |-> Absent])

---------------------------------------------------------------------------
(* Characters and strings *)

DigitChars == <<"0", "1", "2", "3", "4", "5", "6", "7", "8", "9">>

IsDigit(c) == \E i \in 1..10 : DigitChars[i] = c

DigitVal(c) == (CHOOSE i \in 1..10 : DigitChars[i] = c) - 1

\* Code point of a character of the model's alphabet.
Ord(c) ==
    CASE c = "+" -> 43
      [] c = "-" -> 45
      [] IsDigit(c) -> 48 + DigitVal(c)
      [] c = ":" -> 58
      [] c = "Z" -> 90
      [] c = "x" -> 120

\* Python's str < str: lexicographic by code point, a proper prefix first.
RECURSIVE StrLess(_, _)
StrLess(a, b) ==
    IF b = <<>> THEN FALSE
    ELSE IF a = <<>> THEN TRUE
    ELSE IF Ord(Head(a)) # Ord(Head(b)) THEN Ord(Head(a)) < Ord(Head(b))
    ELSE StrLess(Tail(a), Tail(b))

StrLeq(a, b) == a = b \/ StrLess(a, b)

\* s.replace('Z', '+00:00')
RECURSIVE ReplaceZ(_)
ReplaceZ(s) ==
    IF s = <<>> THEN <<>>
    ELSE IF Head(s) = "Z"
         THEN <<"+", "0", "0", ":", "0", "0">> \o ReplaceZ(Tail(s))
         ELSE <<Head(s)>> \o ReplaceZ(Tail(s))

---------------------------------------------------------------------------
(* datetime.fromisoformat on the kept part of a timestamp: two minute      *)
(* digits, then nothing (a naive time) or an offset [+-]HH:MM.             *)

ValidOffset(z) ==
    /\ Len(z) = 6
    /\ z[1] \in {"+", "-"}
    /\ IsDigit(z[2]) /\ IsDigit(z[3]) /\ z[4] = ":"
    /\ IsDigit(z[5]) /\ IsDigit(z[6])
    /\ DigitVal(z[2]) * 10 + DigitVal(z[3]) <= 23
    /\ DigitVal(z[5]) <= 5

OffsetMinutes(z) ==
    LET mag == (DigitVal(z[2]) * 10 + DigitVal(z[3])) * 60
               + DigitVal(z[5]) * 10 + DigitVal(z[6])
    IN IF z[1] = "-" THEN 0 - mag ELSE mag

FromIsoFormat(s) ==
    IF /\ Len(s) >= 2
       /\ IsDigit(s[1]) /\ IsDigit(s[2])
       /\ DigitVal(s[1]) <= 5
       /\ (Len(s) = 2 \/ ValidOffset(SubSeq(s, 3, Len(s))))
    THEN [ok |-> TRUE,
          minute |-> DigitVal(s[1]) * 10 + DigitVal(s[2]),
          aware |-> Len(s) > 2,
          offset |-> IF Len(s) > 2 THEN OffsetMinutes(SubSeq(s, 3, Len(s)))
                     ELSE 0]
    ELSE [ok |-> FALSE, minute |-> 0, aware |-> FALSE, offset |-> 0]

\* The instant of an aware datetime, in seconds.
Instant(dt) == (dt.minute - dt.offset) * 60

\* int(x / 60) for a float x: truncation toward zero.
IntDiv60(secs) ==
    IF secs >= 0 THEN secs \div 60 ELSE 0 - ((0 - secs) \div 60)

\* The clamp of line 246 left out: the difference is returned as it is.
ClampMinutes_NoClamp(m) == m

\* minutes_to_arrival if minutes_to_arrival > 0 else 0
ClampMinutes(m) == IF m > 0 THEN m ELSE 0

\* calculate_time_to_arrival(arrival_time_str) at the clock value clock.
\* Returns Num(minutes), Null (None) or Raise.
CalculateTimeToArrival(v, clock) ==
    IF ~Truthy(v) THEN Null
    ELSE IF v.t # "str" THEN Raise("AttributeError")   \* no .replace
    ELSE LET dt == FromIsoFormat(ReplaceZ(v.s))
         IN IF ~dt.ok THEN Null                          \* ValueError, caught
            ELSE IF ~dt.aware THEN Null                  \* TypeError, caught
            ELSE Num(ClampMinutes(IntDiv60(Instant(dt) - clock)))

\* format_arrival_time(arrival_time_str): the 12-hour clock text of the
\* instant in US/Eastern, the raw string when it does not parse.
FormatArrivalTime(v) ==
    IF ~Truthy(v) THEN [t |-> "fmt", kind |-> "text", text |-> "Unknown", raw |-> <<>>, at |-> 0]
    ELSE IF v.t # "str" THEN Raise("AttributeError")
    ELSE LET dt == FromIsoFormat(ReplaceZ(v.s))
         IN IF ~dt.ok
            THEN [t |-> "fmt", kind |-> "raw", text |-> "", raw |-> v.s, at |-> 0]
            ELSE [t |-> "fmt", kind |-> "clock", text |-> "", raw |-> <<>>,
                  at |-> dt.minute - dt.offset]

---------------------------------------------------------------------------
(* Route lookup *)

\* The sentinel of lines 272-273: a dict with no 'route_type' key.
SentinelNoType ==
    [t |-> "info", short_name |-> Str("Unknown"),
     long_name |-> Str("Unknown Route"), route_type |-> Absent]

\* The sentinel of line 284.
SentinelTyped ==
    [t |-> "info", short_name |-> Str("Unknown"),
     long_name |-> Str("Unknown Route"), route_type |-> Num(0)]

\* The for loop of lines 275-284 over the items that are left.
RECURSIVE ScanIncluded(_, _)
ScanIncluded(items, route_id) ==
    IF items = <<>> THEN SentinelTyped
    ELSE LET item == Head(items)
         IN IF ~IsDict(item) THEN Raise("AttributeError")
            ELSE IF /\ DictGetNone(item, "type") = Str("route")
                    /\ DictGetNone(item, "id") = route_id
                 THEN LET attributes == DictGet(item, "attributes", EmptyDict)
                      IN IF ~IsDict(attributes) THEN Raise("AttributeError")
                         ELSE [t |-> "info",
                               short_name |->
                                   DictGet(attributes, "short_name", Str("Unknown")),
                               long_name |->
                                   DictGet(attributes, "long_name", Str("Unknown Route")),
                               route_type |-> DictGet(attributes, "type", Num(0))]
                 ELSE ScanIncluded(Tail(items), route_id)

\* extract_route_info(included_data, route_id)
ExtractRouteInfo(included_data, route_id) ==
    IF ~Truthy(included_data) \/ ~Truthy(route_id) THEN SentinelNoType
    ELSE IF included_data.t # "arr" THEN Raise("TypeError")
    ELSE ScanIncluded(included_data.a, route_id)

\* get_route_type_name(route_type)
GetRouteTypeName(route_type) ==
    IF route_type.t # "num" THEN Str("Transit")
    ELSE CASE route_type.n = 0 -> Str("Light Rail")
           [] route_type.n = 1 -> Str("Heavy Rail")
           [] route_type.n = 2 -> Str("Commuter Rail")
           [] route_type.n = 3 -> Str("Bus")
           [] route_type.n = 4 -> Str("Ferry")
           [] OTHER -> Str("Transit")

\* route_info.get('route_type', 3)
RouteTypeOr3(route_info) ==
    IF route_info.route_type = Absent THEN Num(3) ELSE route_info.route_type

---------------------------------------------------------------------------
(* get_bus_arrivals: one prediction *)

Skip == [t |-> "skip"]

\* arrival_time or departure_time
PredictedTime(attributes) ==
    LET arrival_time == DictGetNone(attributes, "arrival_time")
        departure_time == DictGetNone(attributes, "departure_time")
    IN IF Truthy(arrival_time) THEN arrival_time ELSE departure_time

\* Lines 359-361: the route id of a prediction's relationships; Raise when
\* a .get is applied to something that is no dict.
RouteIdOf(relationships) ==
    IF ~IsDict(relationships) THEN Raise("AttributeError")
    ELSE LET route_relationship == DictGet(relationships, "route", EmptyDict)
         IN IF ~IsDict(route_relationship) THEN Raise("AttributeError")
            ELSE LET route_data == DictGet(route_relationship, "data", EmptyDict)
                 IN IF ~Truthy(route_data) THEN Null
                    ELSE IF ~IsDict(route_data) THEN Raise("AttributeError")
                    ELSE DictGetNone(route_data, "id")

\* The arrival record of lines 369-379.
ArrivalRecord(route_info, predicted_time, formatted_time, minutes_to_arrival, attributes, stop_name) ==
    [t |-> "rec",
     route_short_name |-> route_info.short_name,
     route_long_name |-> route_info.long_name,
     route_type |-> GetRouteTypeName(RouteTypeOr3(route_info)),
     arrival_time |-> predicted_time,
     formatted_time |-> formatted_time,
     minutes_to_arrival |-> minutes_to_arrival,
     direction_id |-> DictGetNone(attributes, "direction_id"),
     status |-> DictGetNone(attributes, "status"),
     stop_name |-> stop_name]

\* The body of the for loop of lines 347-379 for one prediction: Skip, the
\* record appended, or the exception raised.
ProcessPrediction(prediction, included_data, stop_name, clock) ==
    IF ~IsDict(prediction) THEN Raise("AttributeError")
    ELSE
    LET attributes == DictGet(prediction, "attributes", EmptyDict)
        relationships == DictGet(prediction, "relationships", EmptyDict)
    IN IF ~IsDict(attributes) THEN Raise("AttributeError")
       ELSE LET predicted_time == PredictedTime(attributes)
            IN IF ~Truthy(predicted_time) THEN Skip
               ELSE LET route_id == RouteIdOf(relationships)
                    IN IF IsRaise(route_id) THEN route_id
                       ELSE
                       LET route_info == ExtractRouteInfo(included_data, route_id)
                           minutes_to_arrival ==
                               CalculateTimeToArrival(predicted_time, clock)
                           formatted_time == FormatArrivalTime(predicted_time)
                       IN IF IsRaise(route_info) THEN route_info
                          ELSE IF IsRaise(minutes_to_arrival) THEN minutes_to_arrival
                          ELSE IF IsRaise(formatted_time) THEN formatted_time
                          ELSE ArrivalRecord(route_info, predicted_time,
                                             formatted_time, minutes_to_arrival,
                                             attributes, stop_name)

---------------------------------------------------------------------------
(* get_bus_arrivals: the sort of line 382 *)

\* key=lambda x: x['arrival_time'] if x['arrival_time'] else ''
SortKey(rec) ==
    IF Truthy(rec.arrival_time) THEN rec.arrival_time.s ELSE <<>>

\* rec put into a list sorted by key, after every record whose key is not
\* greater: list.sort is stable.
RECURSIVE InsertByKey(_, _)
InsertByKey(sorted, rec) ==
    IF sorted = <<>> THEN <<rec>>
    ELSE IF StrLess(SortKey(rec), SortKey(Head(sorted)))
         THEN <<rec>> \o sorted
         ELSE <<Head(sorted)>> \o InsertByKey(Tail(sorted), rec)

RECURSIVE SortFrom(_, _)
SortFrom(sorted, rest) ==
    IF rest = <<>> THEN sorted
    ELSE SortFrom(InsertByKey(sorted, Head(rest)), Tail(rest))

\* The sort left out: the records stay in payload order.
SortArrivals_NoSort(recs) == recs

\* arrivals.sort(key=...)
SortArrivals(recs) == SortFrom(<<>>, recs)

---------------------------------------------------------------------------
(* get_bus_arrivals: the whole function *)

\* The for loop of lines 347-379: the records appended so far and the
\* predictions left; Raise as soon as one prediction raises.
RECURSIVE ProcessAll(_, _, _, _, _)
ProcessAll(acc, predictions, included_data, stop_name, clock) ==
    IF predictions = <<>> THEN [t |-> "list", a |-> acc]
    ELSE LET r == ProcessPrediction(Head(predictions), included_data,
                                    stop_name, clock)
         IN IF IsRaise(r) THEN r
            ELSE ProcessAll(IF r = Skip THEN acc ELSE Append(acc, r),
                            Tail(predictions), included_data, stop_name, clock)

\* Lines 342-384: a parsed response body turned into the sorted records.
NormalizePayload(data, stop_name, clock) ==
    IF ~IsDict(data) THEN Raise("AttributeError")
    ELSE LET predictions == DictGet(data, "data", Arr(<<>>))
             included_data == DictGet(data, "included", Arr(<<>>))
         IN IF predictions.t # "arr" THEN Raise("TypeError")
            ELSE LET all == ProcessAll(<<>>, predictions.a, included_data,
                                       stop_name, clock)
                 IN IF IsRaise(all) THEN all
                    ELSE [t |-> "list", a |-> SortArrivals(all.a)]

---------------------------------------------------------------------------
(* Configuration and transport *)

\* ProviderConfig.json as load_config finds it.
MissingFile == [t |-> "missing"]
UnparsableFile == [t |-> "unparsable"]
File(json) == [t |-> "file", json |-> json]

\* load_config(): FileNotFoundError and JSONDecodeError give None.
LoadConfig(file) ==
    IF file.t \in {"missing", "unparsable"} THEN Null ELSE file.json

\* safe_get_nested_value(data, *keys, default=None)
RECURSIVE SafeGetNestedValue(_, _)
SafeGetNestedValue(data, keys) ==
    IF keys = <<>> THEN data
    ELSE IF IsDict(data)
         THEN SafeGetNestedValue(DictGetNone(data, Head(keys)), Tail(keys))
         ELSE Null

\* What the transport does with a request.
NetworkError == [t |-> "network_error"]
Timeout == [t |-> "timeout"]
HttpError == [t |-> "http_error"]
BadBody == [t |-> "bad_body"]
Body(json) == [t |-> "body", json |-> json]

\* json.JSONDecodeError not caught: an unparsable body leaves the function.
MakeApiRequest_BodyErrorEscapes(resp) ==
    IF resp.t = "bad_body" THEN Raise("JSONDecodeError")
    ELSE IF resp.t = "body" THEN resp.json ELSE Null

\* make_api_request(url, headers, timeout): the parsed body, or None after
\* a RequestException (connection, timeout, raise_for_status) or a
\* JSONDecodeError.
MakeApiRequest(resp) ==
    IF resp.t = "body" THEN resp.json ELSE Null

Returned(list, n) == [t |-> "list", a |-> list, requests |-> n]
Raised(e, n) == [t |-> "raise", e |-> e, a |-> <<>>, requests |-> n]

\* The validation of lines 322-325 left out.
RequiredPresent_NoCheck(base_url, endpoint_template, stop_id) == TRUE

\* all([base_url, endpoint_template, stop_id])
RequiredPresent(base_url, endpoint_template, stop_id) ==
    Truthy(base_url) /\ Truthy(endpoint_template) /\ Truthy(stop_id)

\* Lines 336-384: the request and what is made of its answer.
FetchAndNormalize(resp, stop_name, clock) ==
    LET data == MakeApiRequest(resp)
    IN IF IsRaise(data) THEN Raised(data.e, 1)
       ELSE IF data = Null THEN Returned(<<>>, 1)
       ELSE LET out == NormalizePayload(data, stop_name, clock)
            IN IF IsRaise(out) THEN Raised(out.e, 1) ELSE Returned(out.a, 1)

\* get_bus_arrivals() with the file, the transport and the clock of the
\* tick: the list returned or the exception raised, and the number of HTTP
\* requests made.
GetBusArrivals(file, resp, clock) ==
    LET cfg == LoadConfig(file)
    IN IF cfg = Null THEN Returned(<<>>, 0)
       ELSE IF ~IsDict(cfg) THEN Raised("AttributeError", 0)
       ELSE
       LET provider_config == DictGet(cfg, "transport_provider", EmptyDict)
           bus_stop == DictGet(cfg, "bus_stop", EmptyDict)
           request_settings == DictGet(cfg, "request_settings", EmptyDict)
       IN IF ~IsDict(provider_config) \/ ~IsDict(bus_stop)
             \/ ~IsDict(request_settings)
          THEN Raised("AttributeError", 0)
          ELSE
          LET base_url == DictGetNone(provider_config, "base_url")
              endpoint_template ==
                  SafeGetNestedValue(provider_config, <<"endpoints", "arrivals">>)
              api_key == DictGetNone(provider_config, "api_key")
              headers == DictGet(provider_config, "headers", EmptyDict)
              stop_id == DictGetNone(bus_stop, "id")
              stop_name == DictGet(bus_stop, "name", Str("Unknown Stop"))
          IN IF ~RequiredPresent(base_url, endpoint_template, stop_id)
             THEN Returned(<<>>, 0)
             ELSE IF Truthy(api_key) /\ ~IsDict(headers)
                  THEN Raised("AttributeError", 0)      \* headers.copy()
                  ELSE FetchAndNormalize(resp, stop_name, clock)

---------------------------------------------------------------------------
(* The window: BusArrivalDisplay *)

TEXT_COLOR == <<255, 255, 0>>
HEADER_COLOR == <<255, 255, 255>>
ARRIVAL_COLOR == <<0, 255, 0>>
WARNING_COLOR == <<255, 165, 0>>
URGENT_COLOR == <<255, 0, 0>>

max_visible == 8

\* The global bus_display: None, or the instance with its running flag.
NoDisplay == [t |-> "none"]
Display(running) == [t |-> "display", running |-> running]

\* A countdown text: the optional leading characters of the literal (named
\* by their code points; the file holds the bytes of U+1F6A8 and of U+26A1
\* decoded as Mac Roman and encoded again, four and three characters), an
\* optional number (the {minutes_to_arrival} of an f-string) and words.
Text(glyph, n, words) == [glyph |-> glyph, n |-> n, words |-> words]
Plain(words) == Text("none", Absent, words)

\* get_arrival_color(minutes_to_arrival)
GetArrivalColor(m) ==
    IF m = Null THEN TEXT_COLOR
    ELSE IF m.n = 0 THEN URGENT_COLOR
    ELSE IF m.n <= 5 THEN WARNING_COLOR
    ELSE ARRIVAL_COLOR

\* Lines 111-127 of draw_arrivals: the countdown text and its colour.
Countdown(m) ==
    IF m # Null
    THEN IF m.n = 0
         THEN [text |-> Text("U+F8FF U+00FC U+00F6 U+00AE", Absent, " ARRIVING NOW"), color |-> URGENT_COLOR]
         ELSE IF m.n = 1
         THEN [text |-> Plain("1 minute"), color |-> WARNING_COLOR]
         ELSE IF m.n <= 5
         THEN [text |-> Text("U+201A U+00F6 U+00B0", m, " minutes"), color |-> WARNING_COLOR]
         ELSE [text |-> Text("none", m, " minutes"), color |-> ARRIVAL_COLOR]
    ELSE [text |-> Plain("Unknown"), color |-> TEXT_COLOR]

\* arrivals[:max_visible]
Visible(list) == SubSeq(list, 1, IF Len(list) < max_visible THEN Len(list) ELSE max_visible)

\* draw_arrivals(arrivals): the rows blitted, top to bottom.
DrawArrivals(list) ==
    [i \in 1..Len(Visible(list)) |->
        [route_name |-> list[i].route_short_name,
         formatted_time |-> list[i].formatted_time,
         countdown |-> Countdown(list[i].minutes_to_arrival).text,
         color |-> Countdown(list[i].minutes_to_arrival).color]]

\* The escape key is not looked for: only a window-close event stops.
RECURSIVE NoStopEvent_IgnoresEscape(_)
NoStopEvent_IgnoresEscape(evs) ==
    IF evs = <<>> THEN TRUE
    ELSE IF Head(evs).type = "QUIT" THEN FALSE
    ELSE NoStopEvent_IgnoresEscape(Tail(evs))

\* The for loop of lines 152-159 over the drained events: TRUE when the
\* method goes on to draw, FALSE when it returns False.
RECURSIVE NoStopEvent(_)
NoStopEvent(evs) ==
    IF evs = <<>> THEN TRUE
    ELSE IF Head(evs).type = "QUIT" THEN FALSE
    ELSE IF Head(evs).type = "KEYDOWN" /\ Head(evs).key = "K_ESCAPE" THEN FALSE
    ELSE NoStopEvent(Tail(evs))

\* Lines 161-177: the frame drawn and presented.
Frame(list) ==
    IF list # <<>>
    THEN [header |-> list[1].stop_name, body |-> "arrivals",
          rows |-> DrawArrivals(list)]
    ELSE [header |-> Str("Unknown Stop"), body |-> "no_arrivals", rows |-> <<>>]

NoFrame == [header |-> Absent, body |-> "none", rows |-> <<>>]

---------------------------------------------------------------------------
(* The timestamps of the model *)

MinuteText(m) == <<DigitChars[(m \div 10) + 1], DigitChars[(m % 10) + 1]>>

Zones == { <<"Z">>,
           <<"+", "0", "0", ":", "0", "0">>,
           <<"+", "0", "0", ":", "0", "2">>,
           <<"-", "0", "0", ":", "0", "1">>,
           <<"+", "0", "1", ":", "0", "0">> }

\* Valid ISO-8601 timestamps with a UTC offset or a trailing Z.
ValidTimestamps == { Ts(MinuteText(m) \o z) : m \in 0..MaxMinute, z \in Zones }

Clock == 0..MaxNow

\* The clock values of a get_bus_arrivals call: 10:00:00 and 10:02:30.
TickClock == {0, 150}

---------------------------------------------------------------------------
(* The payloads of the model *)

T02 == Ts(<<"0", "2", "Z">>)          \* 2024-01-01T10:02:00Z
T05 == Ts(<<"0", "5", "Z">>)          \* 2024-01-01T10:05:00Z
Garbage == Ts(<<"x", "x">>)           \* a string that is no timestamp

Attrs(arrival_time, departure_time, direction_id) ==
    Obj([arrival_time |-> arrival_time, departure_time |-> departure_time,
         direction_id |-> direction_id, status |-> Absent])

RouteRef(id) ==
    Obj([route |-> Obj([data |-> Obj([type |-> Str("route"), id |-> id])])])

Pred(attributes, relationships) ==
    Obj([attributes |-> attributes, relationships |-> relationships])

\* Predictions every field of which has the documented shape.
GoodAttrs ==
    { Attrs(T05, Absent, Num(0)), Attrs(Absent, T02, Num(1)),
      Attrs(T05, T02, Num(1)), Attrs(Garbage, Absent, Num(0)) }

GoodRefs == { RouteRef(Str("R1")), RouteRef(Str("R9")), Absent }

\* Predictions with a part that is absent, null or of another type.
OddPredictions ==
    { Pred(Attrs(Absent, Absent, Num(0)), RouteRef(Str("R1"))),
      Pred(Attrs(Null, Ts(<<>>), Num(0)), RouteRef(Str("R1"))),
      Pred(Absent, RouteRef(Str("R1"))),
      Pred(Null, RouteRef(Str("R1"))),
      Pred(Attrs(Num(7), Absent, Num(0)), RouteRef(Str("R1"))),
      Pred(Attrs(T05, Absent, Num(0)), Null),
      Pred(Attrs(T05, Absent, Num(0)), Obj([route |-> Null])),
      Pred(Attrs(T05, Absent, Num(0)), Obj([route |-> Absent])),
      Pred(Attrs(T05, Absent, Num(0)), Obj([route |-> Obj([data |-> Null])])),
      Pred(Attrs(T05, Absent, Num(0)), RouteRef(Absent)) }

Predictions ==
    { Pred(a, r) : a \in GoodAttrs, r \in GoodRefs } \cup OddPredictions

RouteItem(id, short_name, long_name, type) ==
    Obj([type |-> Str("route"), id |-> id,
         attributes |-> Obj([short_name |-> short_name,
                             long_name |-> long_name, type |-> type])])

StopItem(id) == Obj([type |-> Str("stop"), id |-> id, attributes |-> Absent])

Route1 == RouteItem(Str("R1"), Str("66"), Str("Harvard - Nubian"), Num(3))

IncludedChoices ==
    { Absent, Arr(<<>>), Arr(<<Route1>>), Arr(<<StopItem(Str("R9")), Route1>>) }

SeqsUpTo(S, n) == UNION { [1..k -> S] : k \in 0..n }

Payload(predictions, included) ==
    Obj([data |-> Arr(predictions), included |-> included])

Payloads ==
    { Payload(ps, inc) : ps \in SeqsUpTo(Predictions, MaxPred),
                         inc \in IncludedChoices }

\* A configuration file with every required value.
StopObj(id, name) == Obj([id |-> id, name |-> name])

Provider(base_url, endpoints, api_key) ==
    Obj([base_url |-> base_url, endpoints |-> endpoints,
         api_key |-> api_key, headers |-> Absent])

Endpoints(template) == Obj([arrivals |-> template])

ConfigJson(provider, stop) ==
    Obj([transport_provider |-> provider, bus_stop |-> stop,
         request_settings |-> Absent])

GoodProvider(api_key) ==
    Provider(Str("https://api"), Endpoints(Str("/predictions?stop={stop_id}")),
             api_key)

GoodStop == StopObj(Str("place-1"), Str("Main St"))

GoodConfig == File(ConfigJson(GoodProvider(Str("key")), GoodStop))

---------------------------------------------------------------------------
(* Variables a specification does not use keep these values. *)

IdleLoop ==
    /\ config = Absent /\ response = Absent /\ result = Absent
    /\ arrivals = <<>> /\ requests = 0 /\ bus_display = NoDisplay
    /\ events = <<>> /\ ret = "none" /\ frames = 0 /\ drawn = NoFrame
    /\ cleanups = 0 /\ pending = "none" /\ tick = 0 /\ interrupted = FALSE

IdleTime == ts = Absent /\ minutes = Absent

loopVars == <<config, response, result, arrivals, requests, bus_display,
              events, ret, frames, drawn, cleanups, pending, tick, interrupted>>

---------------------------------------------------------------------------
(* The environment of the monitoring loop *)

Providers ==
    { Absent,
      GoodProvider(Str("key")),
      GoodProvider(Absent),
      Provider(Absent, Endpoints(Str("/predictions?stop={stop_id}")), Absent),
      Provider(Null, Endpoints(Str("/predictions?stop={stop_id}")), Absent),
      Provider(Str("https://api"), Absent, Absent),
      Provider(Str("https://api"), Endpoints(Absent), Absent) }

Stops ==
    { Absent, StopObj(Absent, Str("Main St")), GoodStop,
      StopObj(Str("place-1"), Absent) }

ConfigFiles ==
    {MissingFile, UnparsableFile}
        \cup { File(ConfigJson(p, s)) : p \in Providers, s \in Stops }

LoopPayloads ==
    { Payload(<<>>, Arr(<<>>)),
      Payload(<<Pred(Attrs(T05, Absent, Num(0)), RouteRef(Str("R1"))),
                Pred(Attrs(Absent, T02, Num(1)), RouteRef(Str("R1")))>>,
              Arr(<<Route1>>)),
      Payload(<<Pred(Attrs(T05, Absent, Num(0)), Absent)>>, Absent),
      Payload(<<Pred(Attrs(T05, Absent, Num(0)), RouteRef(Str("R1"))),
                Pred(Null, RouteRef(Str("R1")))>>,
              Arr(<<Route1>>)) }

Failures == {NetworkError, Timeout, HttpError, BadBody}

Responses == Failures \cup { Body(p) : p \in LoopPayloads }

Event(type, key) == [type |-> type, key |-> key]

EventKinds ==
    { Event("QUIT", "none"), Event("KEYDOWN", "K_ESCAPE"),
      Event("KEYDOWN", "K_a"), Event("KEYUP", "K_ESCAPE"),
      Event("MOUSEMOTION", "none") }

EventLists == SeqsUpTo(EventKinds, MaxEvents)

---------------------------------------------------------------------------
(* Spec: main() running run_monitoring().                                  *)
(* pc: "fetch"  line 409, about to call get_bus_arrivals                   *)
(*     "render" line 412, about to call display_arrivals                   *)
(*     "sleep"  line 416                                                   *)
(*     "rm_finally" lines 420-422, "main_except" lines 429-431,            *)
(*     "main_finally" lines 432-435, "done" main has returned.             *)

Init ==
    /\ pc = "fetch"
    /\ now = 0
    /\ IdleLoop
    /\ IdleTime

\* Line 409: arrivals = get_bus_arrivals().  An exception it raises is no
\* KeyboardInterrupt, so it passes the except clause of line 418 and
\* reaches the finally clause.
Fetch ==
    /\ pc = "fetch"
    /\ tick < MaxTicks
    /\ \E file \in ConfigFiles, resp \in Responses, clock \in TickClock :
        /\ result' = GetBusArrivals(file, resp, clock)
        /\ config' = file
        /\ response' = IF result'.requests = 0 THEN Absent ELSE resp
        /\ now' = clock
    /\ requests' = result'.requests
    /\ IF result'.t = "raise"
       THEN /\ pending' = result'.e
            /\ pc' = "rm_finally"
            /\ UNCHANGED arrivals
       ELSE /\ arrivals' = result'.a
            /\ pc' = "render"
            /\ UNCHANGED pending
    /\ tick' = tick + 1
    /\ events' = <<>>
    /\ ret' = "none"
    /\ UNCHANGED <<bus_display, frames, drawn, cleanups, interrupted, ts, minutes>>

\* Line 412: display_arrivals(arrivals), lines 387-395 and 149-179.  The
\* instance is created on the first call; the events are drained; a stop
\* event returns False before anything is drawn and the loop breaks.
Render ==
    /\ pc = "render"
    /\ \E evs \in EventLists :
        /\ events' = evs
        /\ IF NoStopEvent(evs)
           THEN /\ bus_display' = IF bus_display = NoDisplay THEN Display(TRUE)
                                  ELSE bus_display
                /\ drawn' = Frame(arrivals)
                /\ frames' = frames + 1
                /\ ret' = "True"
                /\ pc' = "sleep"
           ELSE /\ bus_display' = Display(FALSE)
                /\ ret' = "False"
                /\ pc' = "rm_finally"
                /\ UNCHANGED <<drawn, frames>>
    /\ UNCHANGED <<config, response, now, result, arrivals, requests, cleanups,
                   pending, tick, interrupted, ts, minutes>>

\* Line 416: time.sleep(1), then the next iteration.  The tick is over:
\* its file, response, result and drained events are no more.
Sleep ==
    /\ pc = "sleep"
    /\ pc' = "fetch"
    /\ config' = Absent /\ response' = Absent /\ result' = Absent
    /\ requests' = 0 /\ events' = <<>> /\ ret' = "none"
    /\ UNCHANGED <<now, arrivals, bus_display, frames, drawn, cleanups,
                   pending, tick, interrupted, ts, minutes>>

\* Lines 418-419: a KeyboardInterrupt raised anywhere in the loop is caught
\* by run_monitoring, which goes on to its finally clause.
Interrupt ==
    /\ pc \in {"fetch", "render", "sleep"}
    /\ interrupted' = TRUE
    /\ pc' = "rm_finally"
    /\ UNCHANGED <<config, response, now, result, arrivals, requests,
                   bus_display, events, ret, frames, drawn, cleanups, pending,
                   tick, ts, minutes>>

\* Lines 420-422: run_monitoring's finally clause; a pending exception then
\* propagates to main.
RunMonitoringFinally ==
    /\ pc = "rm_finally"
    /\ cleanups' = IF bus_display # NoDisplay THEN cleanups + 1 ELSE cleanups
    /\ pc' = IF pending # "none" THEN "main_except" ELSE "main_finally"
    /\ UNCHANGED <<config, response, now, result, arrivals, requests,
                   bus_display, events, ret, frames, drawn, pending, tick,
                   interrupted, ts, minutes>>

\* Lines 429-431: main's except Exception clause.
MainExcept ==
    /\ pc = "main_except"
    /\ pending' = "none"
    /\ pc' = "main_finally"
    /\ UNCHANGED <<config, response, now, result, arrivals, requests,
                   bus_display, events, ret, frames, drawn, cleanups, tick,
                   interrupted, ts, minutes>>

\* Lines 432-435: main's finally clause.
MainFinally ==
    /\ pc = "main_finally"
    /\ cleanups' = IF bus_display # NoDisplay THEN cleanups + 1 ELSE cleanups
    /\ pc' = "done"
    /\ UNCHANGED <<config, response, now, result, arrivals, requests,
                   bus_display, events, ret, frames, drawn, pending, tick,
                   interrupted, ts, minutes>>

Next ==
    \/ Fetch
    \/ Render
    \/ Sleep
    \/ Interrupt
    \/ RunMonitoringFinally
    \/ MainExcept
    \/ MainFinally

Spec == Init /\ [][Next]_vars

Teardown == {"rm_finally", "main_except", "main_finally", "done"}

\* C1: whenever a display was created, BusArrivalDisplay.cleanup is invoked
\* exactly once per run of main(), however monitoring ends: never twice,
\* and once main has returned not zero times.
C1_CleanupExactlyOnce ==
    /\ cleanups <= 1
    /\ (pc = "done" /\ bus_display # NoDisplay) => cleanups = 1

\* The drained events hold a window-close or an escape-key-press event.
HasStopEvent(evs) ==
    \E k \in DOMAIN evs :
        \/ evs[k].type = "QUIT"
        \/ evs[k].type = "KEYDOWN" /\ evs[k].key = "K_ESCAPE"

\* A step in which a display_arrivals call returns.
RenderReturns == pc = "render" /\ ret' # "none"

\* A step in which a get_bus_arrivals call ends.
FetchEnds == pc = "fetch" /\ tick' = tick + 1

\* C4: when the drained events hold a window-close or an escape-key-press
\* event, display_arrivals returns False without drawing or presenting a
\* frame and run_monitoring goes to its teardown with no further fetch,
\* render or sleep; with neither event (other keys included) it draws the
\* frame and returns True.
C4_StopRequestEndsLoop ==
    [][ /\ RenderReturns =>
            IF HasStopEvent(events')
            THEN /\ ret' = "False"
                 /\ frames' = frames /\ drawn' = drawn
                 /\ pc' = "rm_finally"
            ELSE /\ ret' = "True"
                 /\ frames' = frames + 1 /\ drawn' = Frame(arrivals)
                 /\ pc' = "sleep"
        /\ pc \in Teardown =>
            /\ pc' \in Teardown
            /\ frames' = frames /\ tick' = tick /\ requests' = requests
            /\ ret' = ret
      ]_vars

\* The loop was left in its second tick by an escape key press that
\* followed another key press; the first tick drew a frame.
C4_Witness ==
    /\ pc = "done"
    /\ ret = "False"
    /\ events = <<Event("KEYDOWN", "K_a"), Event("KEYDOWN", "K_ESCAPE")>>
    /\ tick = 2
    /\ frames = 1

\* A value of the configuration is absent: the key, or a section on the way
\* to it, is missing or null.
Field(obj, key) ==
    IF obj.t = "obj" /\ key \in DOMAIN obj.f THEN obj.f[key] ELSE Absent

IsAbsent(v) == v = Absent \/ v = Null

\* The file is missing or unparsable, or base URL, endpoint template or
\* stop id is absent.
BadConfig(file) ==
    \/ file.t \in {"missing", "unparsable"}
    \/ /\ file.t = "file"
       /\ \/ IsAbsent(Field(Field(file.json, "transport_provider"), "base_url"))
          \/ IsAbsent(Field(Field(Field(file.json, "transport_provider"),
                                  "endpoints"), "arrivals"))
          \/ IsAbsent(Field(Field(file.json, "bus_stop"), "id"))

C10_TransportFailureTick ==
    [][ /\ (FetchEnds /\ response' \in Failures) =>
            /\ MakeApiRequest(response') = Null
            /\ requests' = 1
            /\ result' = Returned(<<>>, 1)
            /\ arrivals' = <<>>
            /\ pending' = "none"
            /\ pc' = "render"
        /\ (RenderReturns /\ response \in Failures) =>
            /\ arrivals = <<>>
            /\ ret' = "True" => (drawn' = Frame(<<>>) /\ pc' = "sleep")
        /\ (pc = "sleep" /\ response \in Failures /\ ~interrupted') =>
            (pc' = "fetch" /\ pending' = "none")
      ]_vars

\* A tick whose request timed out has drawn the empty frame and come to
\* its sleep.
C10_Witness ==
    /\ response = Timeout
    /\ pc = "sleep"
    /\ requests = 1
    /\ ret = "True"
    /\ drawn = Frame(<<>>)

---------------------------------------------------------------------------
(* SpecTime: one call of calculate_time_to_arrival on a valid timestamp.   *)

InitTime ==
    /\ pc = "call"
    /\ ts \in ValidTimestamps
    /\ now \in Clock
    /\ minutes = Absent
    /\ IdleLoop

CallCalculate ==
    /\ pc = "call"
    /\ minutes' = CalculateTimeToArrival(ts, now)
    /\ pc' = "returned"
    /\ UNCHANGED <<ts, now, loopVars>>

NextTime == CallCalculate

SpecTime == InitTime /\ [][NextTime]_vars

\* The instant a valid timestamp denotes, read off its text.
InstantOf(v) == Instant(FromIsoFormat(ReplaceZ(v.s)))

\* floor(x / 60) for an integer number of seconds x.
Floor60(secs) == secs \div 60

\* C6: for every valid timestamp T with an offset or a trailing Z and every
\* clock value, calculate_time_to_arrival returns floor((T - now) / 60 s),
\* which is >= 0, when T is in the future, exactly 0 when T is at or before
\* now, and never a negative number.
C6_MinutesFloorClamped ==
    pc = "returned" =>
        /\ minutes.t = "num"
        /\ minutes.n >= 0
        /\ (InstantOf(ts) > now => minutes.n = Floor60(InstantOf(ts) - now))
        /\ (InstantOf(ts) <= now => minutes.n = 0)

\* A call has returned for a timestamp more than a minute ahead, not a
\* whole number of minutes ahead, and one for a timestamp in the past.
C6_Witness ==
    /\ pc = "returned"
    /\ InstantOf(ts) - now > 60
    /\ (InstantOf(ts) - now) % 60 # 0
    /\ minutes = Num(1)

---------------------------------------------------------------------------
(* SpecNorm: one call of get_bus_arrivals with a usable configuration and  *)
(* a response body from Payloads.                                          *)

InitNorm ==
    /\ pc = "call"
    /\ config = GoodConfig
    /\ response \in { Body(p) : p \in Payloads }
    /\ now \in TickClock
    /\ result = Absent
    /\ arrivals = <<>> /\ requests = 0 /\ bus_display = NoDisplay
    /\ events = <<>> /\ ret = "none" /\ frames = 0 /\ drawn = NoFrame
    /\ cleanups = 0 /\ pending = "none" /\ tick = 0 /\ interrupted = FALSE
    /\ IdleTime

CallGetBusArrivals ==
    /\ pc = "call"
    /\ result' = GetBusArrivals(config, response, now)
    /\ requests' = result'.requests
    /\ pc' = "returned"
    /\ UNCHANGED <<config, response, now, arrivals, bus_display, events, ret,
                   frames, drawn, cleanups, pending, tick, interrupted, ts,
                   minutes>>

NextNorm == CallGetBusArrivals

SpecNorm == InitNorm /\ [][NextNorm]_vars

\* The predictions of the response and its included list.
PredsOf(resp) == resp.json.f.data.a
IncludedOf(resp) == resp.json.f.included

\* A prediction has an arrival or a departure timestamp.
HasTimestamp(p) ==
    /\ IsDict(p.f.attributes)
    /\ \/ Truthy(DictGetNone(p.f.attributes, "arrival_time"))
       \/ Truthy(DictGetNone(p.f.attributes, "departure_time"))

Timestamped(resp) == { i \in DOMAIN PredsOf(resp) : HasTimestamp(PredsOf(resp)[i]) }

\* C2: whatever item of the prediction list is malformed, get_bus_arrivals
\* completes without raising and still emits a record for every prediction
\* that has a timestamp.
C2_BadItemDegrades ==
    pc = "returned" =>
        /\ result.t = "list"
        /\ Len(result.a) = Cardinality(Timestamped(response))

\* The route reference of prediction p cannot be resolved: it carries no
\* route id, or the included list is absent or empty, or no included item
\* of type "route" has the id.
NoRouteId(p) ==
    LET id == RouteIdOf(DictGet(p, "relationships", EmptyDict))
    IN ~IsRaise(id) /\ ~Truthy(id)

NoIncluded(inc) == ~Truthy(inc)

NoMatch(p, inc) ==
    LET id == RouteIdOf(DictGet(p, "relationships", EmptyDict))
    IN /\ ~IsRaise(id) /\ Truthy(id) /\ Truthy(inc)
       /\ ~\E k \in DOMAIN inc.a :
              /\ DictGetNone(inc.a[k], "type") = Str("route")
              /\ DictGetNone(inc.a[k], "id") = id

Unresolvable(p, inc) == NoRouteId(p) \/ NoIncluded(inc) \/ NoMatch(p, inc)

\* The record of prediction p is in the list with the sentinel route fields
\* of category code 0.
HasSentinelRecord(list, p) ==
    \E k \in DOMAIN list :
        /\ list[k].arrival_time = PredictedTime(p.f.attributes)
        /\ list[k].direction_id = DictGetNone(p.f.attributes, "direction_id")
        /\ list[k].route_short_name = Str("Unknown")
        /\ list[k].route_long_name = Str("Unknown Route")
        /\ list[k].route_type = GetRouteTypeName(Num(0))

\* C3: every prediction whose route reference is unresolvable (no route id,
\* absent or empty included list, no matching included route) gets the
\* record with short name "Unknown", long name "Unknown Route" and the
\* label of category code 0, "Light Rail".
C3_UnresolvedRouteIsLightRail ==
    (pc = "returned" /\ result.t = "list") =>
        \A i \in Timestamped(response) :
            Unresolvable(PredsOf(response)[i], IncludedOf(response))
                => HasSentinelRecord(result.a, PredsOf(response)[i])

\* The payload without its i-th prediction.
WithoutPrediction(resp, i) ==
    LET ps == PredsOf(resp)
    IN Body(Payload(SubSeq(ps, 1, i - 1) \o SubSeq(ps, i + 1, Len(ps)),
                    IncludedOf(resp)))

\* The raw timestamp the claim expects of prediction p: arrival if present,
\* else departure.
ExpectedRaw(p) ==
    IF ~IsDict(p.f.attributes) THEN Null
    ELSE IF Truthy(DictGetNone(p.f.attributes, "arrival_time"))
         THEN DictGetNone(p.f.attributes, "arrival_time")
         ELSE DictGetNone(p.f.attributes, "departure_time")

\* C5: for every payload the normalizer emits exactly one record per
\* prediction with an arrival or departure timestamp and none for the
\* others; a record's raw timestamp is the arrival timestamp if present,
\* else the departure timestamp; and removing a prediction without
\* timestamps leaves the output unchanged.
C5_OneRecordPerTimestamped ==
    pc = "returned" =>
        /\ result.t = "list"
        /\ Len(result.a) = Cardinality(Timestamped(response))
        /\ \A i \in Timestamped(response) :
               Cardinality({ k \in DOMAIN result.a :
                               result.a[k].arrival_time
                                   = ExpectedRaw(PredsOf(response)[i]) })
               = Cardinality({ j \in Timestamped(response) :
                                 ExpectedRaw(PredsOf(response)[j])
                                     = ExpectedRaw(PredsOf(response)[i]) })
        /\ \A i \in DOMAIN PredsOf(response) \ Timestamped(response) :
               GetBusArrivals(config, WithoutPrediction(response, i), now)
                   = result

---------------------------------------------------------------------------
(* SpecDraw: one call of draw_arrivals on records with every countdown.    *)

Shown == {Null} \cup { Num(k) : k \in 0..MaxShown }

DrawRecord(m) ==
    ArrivalRecord(SentinelTyped, T05, FormatArrivalTime(T05), m,
                  Attrs(T05, Absent, Num(0)), Str("Main St"))

InitDraw ==
    /\ pc = "call"
    /\ arrivals \in { [i \in 1..Len(ms) |-> DrawRecord(ms[i])] :
                        ms \in UNION { [1..k -> Shown] : k \in 1..MaxRows } }
    /\ config = Absent /\ response = Absent /\ result = Absent /\ now = 0
    /\ requests = 0 /\ bus_display = Display(TRUE)
    /\ events = <<>> /\ ret = "none" /\ frames = 0 /\ drawn = NoFrame
    /\ cleanups = 0 /\ pending = "none" /\ tick = 0 /\ interrupted = FALSE
    /\ IdleTime

CallDrawArrivals ==
    /\ pc = "call"
    /\ drawn' = [header |-> Absent, body |-> "arrivals",
                 rows |-> DrawArrivals(arrivals)]
    /\ pc' = "returned"
    /\ UNCHANGED <<config, response, now, result, arrivals, requests,
                   bus_display, events, ret, frames, cleanups, pending, tick,
                   interrupted, ts, minutes>>

NextDraw == CallDrawArrivals

SpecDraw == InitDraw /\ [][NextDraw]_vars

\* The colours of the urgency tiers.
Neutral == TEXT_COLOR
Urgent == URGENT_COLOR
Warning == WARNING_COLOR
Normal == ARRIVAL_COLOR

\* The table's colour for m.
TableColor(m) ==
    IF m = Null THEN Neutral
    ELSE IF m.n = 0 THEN Urgent
    ELSE IF m.n <= 5 THEN Warning
    ELSE Normal

\* C9: the phrase and colour of every row follow the table
\* unknown -> "Unknown"/neutral, 0 -> "Arriving now!"/urgent,
\* 1 -> "1 minute"/warning, 2..5 -> "N minutes"/warning,
\* >5 -> "N minutes"/normal, and get_arrival_color gives the same colour.
C9_TableAsStated ==
    pc = "returned" =>
        \A i \in DOMAIN drawn.rows :
            LET m == arrivals[i].minutes_to_arrival
                row == drawn.rows[i]
            IN /\ row.color = TableColor(m)
               /\ GetArrivalColor(m) = row.color
               /\ row.countdown =
                      IF m = Null THEN Plain("Unknown")
                      ELSE IF m.n = 0 THEN Plain("Arriving now!")
                      ELSE IF m.n = 1 THEN Plain("1 minute")
                      ELSE Text("none", m, " minutes")

\* The part of the table that draw_arrivals follows: the colour of every
\* row is the tier's colour and get_arrival_color gives the same colour.
CountdownColoursFollowTable ==
    pc = "returned" =>
        \A i \in DOMAIN drawn.rows :
            LET m == arrivals[i].minutes_to_arrival
                row == drawn.rows[i]
            IN /\ row.color = TableColor(m)
               /\ GetArrivalColor(m) = row.color

=============================================================================
